---- MODULE Spec2Model ----
(***************************************************************************)
(* Filter scoping and query-parameter building of the clickstream          *)
(* dashboard: build_params of filters.py (takes the filter configuration   *)
(* as an argument) and build_params of app.py (reads the module-level      *)
(* filter_config built by the sidebar).                                    *)
(***************************************************************************)
EXTENDS Naturals, Sequences, FiniteSets, TLC

VARIABLES filter_config, target_graph, params, prev_params, pc,
          step, df, shown, issued, failed

\* the state of one run of the script app.py, beyond the five above
passvars == <<step, df, shown, issued, failed>>

vars == <<filter_config, target_graph, params, prev_params, pc, passvars>>

----------------------------------------------------------------------------
(* Bounds of the model *)

\* at most this many filter definitions in a hand-built (partial) configuration
MaxSupplied == 1

\* at most this many sidebar filters moved away from their widget defaults
MaxTouched == 1

----------------------------------------------------------------------------
(* Python values: None, a bool, or a list of selected options *)

None == [kind |-> "none", b |-> FALSE, items |-> <<>>]

Bool(x) == [kind |-> "bool", b |-> x, items |-> <<>>]

List(s) == [kind |-> "list", b |-> FALSE, items |-> s]

\* Python truthiness, as used by `if value` / `if config['value']`
Truthy(v) ==
    CASE v.kind = "none" -> FALSE
      [] v.kind = "bool" -> v.b
      [] v.kind = "list" -> Len(v.items) > 0

\* dict.get(key, default)
Get(d, key, default) == IF key \in DOMAIN d THEN d[key] ELSE default

\* d[key] = v on a dict
Put(d, key, v) == [k \in DOMAIN d \cup {key} |-> IF k = key THEN v ELSE d[k]]

\* the empty dict {}
EmptyDict == [k \in {} |-> None]

----------------------------------------------------------------------------
(* Fixed tables of the program *)

\* variant: the parameter names of region and traffic exchanged
param_map_swapped ==
    [month     |-> "p_months",
     visitor   |-> "p_visitor_types",
     weekend   |-> "p_weekend",
     browser   |-> "p_browsers",
     os        |-> "p_os",
     region    |-> "p_traffics",
     traffic   |-> "p_regions",
     page_type |-> "p_page_types"]

param_map ==
    [month     |-> "p_months",
     visitor   |-> "p_visitor_types",
     weekend   |-> "p_weekend",
     browser   |-> "p_browsers",
     os        |-> "p_os",
     region    |-> "p_regions",
     traffic   |-> "p_traffics",
     page_type |-> "p_page_types"]

\* the bind parameters named in the query template
func_call_str ==
    {"p_months", "p_visitor_types", "p_weekend", "p_browsers",
     "p_os", "p_regions", "p_traffics", "p_page_types"}

\* variant: the OS chart moved in front of the traffic and region charts
RenderTargets_os_early ==
    <<"kpi", "weekend", "month", "browser", "os", "traffic", "region",
      "page_type", "engagement", "special_day">>

\* the target_graph values of the render pass, in the order of the calls
RenderTargets ==
    <<"kpi", "weekend", "month", "browser", "traffic", "region", "os",
      "page_type", "engagement", "special_day">>

\* target_graph=None, the default of the argument
NoTarget == "None"

\* every target a caller can pass: the rendered ones, any filter name, None
Targets ==
    {RenderTargets[i] : i \in 1..Len(RenderTargets)} \cup DOMAIN param_map \cup {NoTarget}

\* the choices of the scope radio
ScopeChoices == {"All", "KPIs", "Graph"}

\* the three choices of the weekend selectbox
weekend_map == {None, Bool(FALSE), Bool(TRUE)}

\* a selection made in the multiselect of a filter
Selection(name) ==
    CASE name = "month"     -> <<"Feb", "Mar">>
      [] name = "visitor"   -> <<"Returning_Visitor">>
      [] name = "browser"   -> <<"2">>
      [] name = "os"        -> <<"3">>
      [] name = "region"    -> <<"APAC">>
      [] name = "traffic"   -> <<"4">>
      [] name = "page_type" -> <<"Informational">>

\* the values the widget of a filter can return
WidgetValues(name) ==
    IF name = "weekend" THEN weekend_map
    ELSE {List(<<>>), List(Selection(name))}

\* the entries filter_config can hold for a filter
Entries(name) ==
    {[value |-> v, scope |-> s] : v \in WidgetValues(name), s \in ScopeChoices}

\* what the widgets return before the user touches them
DefaultEntry(name) ==
    [value |-> IF name = "weekend" THEN None ELSE List(<<>>), scope |-> "All"]

----------------------------------------------------------------------------
(* build_params of filters.py *)

\* variant: scope 'All' tested together with a truthy target_graph
is_active_all_needs_target(name, config, value, target) ==
    IF Truthy(value) \/ (name = "weekend" /\ value # None)
    THEN LET scope == Get(config, "scope", "All") IN
         \/ scope = "All" /\ target # NoTarget
         \/ scope = "KPIs" /\ target = "kpi"
         \/ scope = "Graph" /\ target = name
    ELSE FALSE

\* variant: scope 'Graph' applied to every chart, not only the filter's own
is_active_graph_any_chart(name, config, value, target) ==
    IF Truthy(value) \/ (name = "weekend" /\ value # None)
    THEN LET scope == Get(config, "scope", "All") IN
         \/ scope = "All"
         \/ scope = "KPIs" /\ target = "kpi"
         \/ scope = "Graph" /\ target # "kpi"
    ELSE FALSE

\* variant: scope 'KPIs' also applied to the filter's own chart
is_active_kpis_own_chart(name, config, value, target) ==
    IF Truthy(value) \/ (name = "weekend" /\ value # None)
    THEN LET scope == Get(config, "scope", "All") IN
         \/ scope = "All"
         \/ scope = "KPIs" /\ (target = "kpi" \/ target = name)
         \/ scope = "Graph" /\ target = name
    ELSE FALSE

\* variant: `value is not None` in place of the truthiness test
is_active_not_none(name, config, value, target) ==
    IF value # None
    THEN LET scope == Get(config, "scope", "All") IN
         \/ scope = "All"
         \/ scope = "KPIs" /\ target = "kpi"
         \/ scope = "Graph" /\ target = name
    ELSE FALSE

\* variant: the truthiness test alone, without the weekend exception
is_active_truthy_only(name, config, value, target) ==
    IF Truthy(value)
    THEN LET scope == Get(config, "scope", "All") IN
         \/ scope = "All"
         \/ scope = "KPIs" /\ target = "kpi"
         \/ scope = "Graph" /\ target = name
    ELSE FALSE

\* variant: config.get('scope') without the default 'All'
is_active_no_default(name, config, value, target) ==
    IF Truthy(value) \/ (name = "weekend" /\ value # None)
    THEN LET scope == Get(config, "scope", "") IN
         \/ scope = "All"
         \/ scope = "KPIs" /\ target = "kpi"
         \/ scope = "Graph" /\ target = name
    ELSE FALSE

\* variant: scope 'KPIs' also applied when no target is given
is_active_kpis_no_target(name, config, value, target) ==
    IF Truthy(value) \/ (name = "weekend" /\ value # None)
    THEN LET scope == Get(config, "scope", "All") IN
         \/ scope = "All"
         \/ scope = "KPIs" /\ (target = "kpi" \/ target = NoTarget)
         \/ scope = "Graph" /\ target = name
    ELSE FALSE

\* variant: a final `else: is_active = True` after the KPIs and Graph tests
is_active_else_all(name, config, value, target) ==
    IF Truthy(value) \/ (name = "weekend" /\ value # None)
    THEN LET scope == Get(config, "scope", "All") IN
         \/ scope = "KPIs" /\ target = "kpi"
         \/ scope = "Graph" /\ target = name
         \/ scope \notin {"KPIs", "Graph"}
    ELSE FALSE

\* scope rule of the loop body
is_active(name, config, value, target) ==
    IF Truthy(value) \/ (name = "weekend" /\ value # None)
    THEN LET scope == Get(config, "scope", "All") IN
         \/ scope = "All"
         \/ scope = "KPIs" /\ target = "kpi"
         \/ scope = "Graph" /\ target = name
    ELSE FALSE

\* variant: the value of a filter that is not active is also reset in the
\* configuration (config['value'] = None)
loop_body_clear(name, st, target) ==
    IF name \notin DOMAIN param_map
    THEN st
    ELSE LET config == st.filter_config[name]
             value  == Get(config, "value", None)
             active == is_active(name, config, value, target)
         IN [params        |-> Put(st.params, param_map[name],
                                   IF active THEN value ELSE None),
             filter_config |-> IF active THEN st.filter_config
                               ELSE Put(st.filter_config, name,
                                        Put(config, "value", None))]

\* variant: config.pop('value', None) in place of config.get('value')
loop_body_pop(name, st, target) ==
    IF name \notin DOMAIN param_map
    THEN st
    ELSE LET config == st.filter_config[name]
             value  == Get(config, "value", None)
         IN [params        |-> Put(st.params, param_map[name],
                                   IF is_active(name, config, value, target)
                                   THEN value ELSE None),
             filter_config |-> Put(st.filter_config, name,
                                   [k \in DOMAIN config \ {"value"} |-> config[k]])]

\* variant: is_active set to False once before the loop, not in each
\* iteration, so it stays True after the first active filter
loop_body_sticky(name, st, target) ==
    IF name \notin DOMAIN param_map
    THEN st
    ELSE LET config == st.filter_config[name]
             value  == Get(config, "value", None)
             active == \/ is_active(name, config, value, target)
                       \/ \E p \in DOMAIN st.params : st.params[p] # None
         IN [params        |-> Put(st.params, param_map[name],
                                   IF active THEN value ELSE None),
             filter_config |-> st.filter_config]

\* one iteration of `for name, config in filter_config.items()`;
\* st holds the params dict being filled and the configuration iterated
loop_body(name, st, target) ==
    IF name \notin DOMAIN param_map
    THEN st
    ELSE LET config == st.filter_config[name]
             value  == Get(config, "value", None)
         IN [params        |-> Put(st.params, param_map[name],
                                   IF is_active(name, config, value, target)
                                   THEN value ELSE None),
             filter_config |-> st.filter_config]

\* the keys are distinct and each iteration writes its own parameter, so the
\* order in which the items are visited does not show in the result
RECURSIVE loop(_, _, _)
loop(todo, st, target) ==
    IF todo = {} THEN st
    ELSE LET name == CHOOSE n \in todo : TRUE
         IN loop(todo \ {name}, loop_body(name, st, target), target)

\* the call: params starts as {} and the loop runs over the items
build_params(config, target) ==
    loop(DOMAIN config, [params |-> EmptyDict, filter_config |-> config], target)

----------------------------------------------------------------------------
(* build_params of app.py, over the module-level filter_config *)

\* variant: scope 'Graph' applied to every chart, not only the filter's own
app_is_active_graph_any_chart(name, config, target) ==
    IF Truthy(config["value"]) \/ (name = "weekend" /\ config["value"] # None)
    THEN \/ config["scope"] = "All"
         \/ config["scope"] = "KPIs" /\ target = "kpi"
         \/ config["scope"] = "Graph" /\ target # "kpi"
    ELSE FALSE

\* variant: the truthiness test alone, without the weekend exception
app_is_active_truthy_only(name, config, target) ==
    IF Truthy(config["value"])
    THEN \/ config["scope"] = "All"
         \/ config["scope"] = "KPIs" /\ target = "kpi"
         \/ config["scope"] = "Graph" /\ target = name
    ELSE FALSE

\* is_active of one iteration
app_is_active(name, config, target) ==
    IF Truthy(config["value"]) \/ (name = "weekend" /\ config["value"] # None)
    THEN \/ config["scope"] = "All"
         \/ config["scope"] = "KPIs" /\ target = "kpi"
         \/ config["scope"] = "Graph" /\ target = name
    ELSE FALSE

\* the subscripts of one iteration that raise KeyError: param_map[name],
\* config['value'], and config['scope'] when the value test passes
app_key_error(name, config) ==
    \/ name \notin DOMAIN param_map
    \/ "value" \notin DOMAIN config
    \/ /\ Truthy(config["value"]) \/ (name = "weekend" /\ config["value"] # None)
       /\ "scope" \notin DOMAIN config

\* variant: only the parameter of an active filter is written
app_loop_body_skip_inactive(name, st, target) ==
    LET config == st.filter_config[name]
    IN IF app_key_error(name, config)
       THEN [st EXCEPT !.error = "KeyError"]
       ELSE IF app_is_active(name, config, target)
       THEN [st EXCEPT !.params = Put(st.params, param_map[name], config["value"])]
       ELSE st

\* one iteration of `for name, config in filter_config.items()`
app_loop_body(name, st, target) ==
    LET config == st.filter_config[name]
    IN IF app_key_error(name, config)
       THEN [st EXCEPT !.error = "KeyError"]
       ELSE [st EXCEPT !.params = Put(st.params, param_map[name],
                                      IF app_is_active(name, config, target)
                                      THEN config["value"] ELSE None)]

RECURSIVE app_loop(_, _, _)
app_loop(todo, st, target) ==
    IF todo = {} \/ st.error # "" THEN st
    ELSE LET name == CHOOSE n \in todo : TRUE
         IN app_loop(todo \ {name}, app_loop_body(name, st, target), target)

app_build_params(config, target) ==
    app_loop(DOMAIN config,
             [params |-> EmptyDict, filter_config |-> config, error |-> ""], target)

----------------------------------------------------------------------------
(* Configurations *)

RECURSIVE ConfigsOver(_)
ConfigsOver(S) ==
    IF S = {} THEN {EmptyDict}
    ELSE LET name == CHOOSE n \in S : TRUE
         IN {Put(f, name, e) : f \in ConfigsOver(S \ {name}), e \in Entries(name)}

\* hand-built configurations passed to build_params of filters.py
PartialConfigs ==
    UNION {ConfigsOver(S) : S \in {T \in SUBSET DOMAIN param_map : Cardinality(T) <= MaxSupplied}}

\* the sidebar untouched, and the sidebar with every filter selected and
\* every scope radio on the same choice
Baselines ==
    {[name \in DOMAIN param_map |-> DefaultEntry(name)]} \cup
    {[name \in DOMAIN param_map |->
        [value |-> IF name = "weekend" THEN Bool(FALSE) ELSE List(Selection(name)),
         scope |-> s]] : s \in ScopeChoices}

\* what render_filters returns, and what the sidebar of app.py builds:
\* all eight filters, each with a value and a scope
render_filters ==
    {[name \in DOMAIN param_map |-> Get(f, name, base[name])] :
        base \in Baselines,
        f \in UNION {ConfigsOver(S) :
                S \in {T \in SUBSET DOMAIN param_map : Cardinality(T) <= MaxTouched}}}

\* a filter name outside the eight of param_map
UnrecognizedName == "device"

\* hand-built configurations that hold a definition under a name build_params
\* does not know, alone or beside the definition of one recognized filter
UnrecognizedConfigs ==
    {Put(f, UnrecognizedName, [value |-> List(<<"mobile">>), scope |-> s]) :
        f \in ConfigsOver({}) \cup ConfigsOver({"region"}), s \in ScopeChoices}

\* hand-built configurations whose one definition has a 'value' and no 'scope'
ScopelessConfigs ==
    UNION {{Put(EmptyDict, name, [value |-> v]) : v \in WidgetValues(name)} :
                name \in DOMAIN param_map}

\* scope strings that are none of the three choices of the radio
OffEnumScopes == {"Both", "kpis"}

\* hand-built configurations whose one definition has a non-empty value and
\* a scope outside the three choices
OffEnumConfigs ==
    UNION {{Put(EmptyDict, name, [value |-> v, scope |-> s]) :
                v \in WidgetValues(name) \ {None, List(<<>>)}, s \in OffEnumScopes} :
                name \in DOMAIN param_map}

----------------------------------------------------------------------------
(* The state machine: a caller holding a configuration and a target calls  *)
(* build_params, may call it for another target, and calls it again.       *)
(*   filter_config  the configuration the caller holds                     *)
(*   target_graph   the target of the caller's chart                       *)
(*   params         the mapping returned for target_graph                  *)
(*   prev_params    the mapping of the first call, kept for the second     *)
(*   pc             where the caller is; "raised" after an uncaught KeyError *)

\* no earlier result kept
Unset == <<>>

\* filter_config as app.py holds it: built by the sidebar, all eight filters
IsSidebarConfig(config) == DOMAIN config = DOMAIN param_map

\* the targets app.py passes
IsRenderTarget(target) == \E i \in 1..Len(RenderTargets) : RenderTargets[i] = target

Init ==
    /\ filter_config \in PartialConfigs \cup render_filters
                        \cup UnrecognizedConfigs \cup ScopelessConfigs
                        \cup OffEnumConfigs
    /\ target_graph \in Targets
    /\ params = EmptyDict
    /\ prev_params = Unset
    /\ pc = "start"
    /\ step = 0
    /\ df = "none"
    /\ shown = {}
    /\ issued = <<>>
    /\ failed = FALSE

\* params = build_params(filter_config, target_graph)     (filters.py)
LibCall ==
    /\ pc = "start"
    /\ \E st \in {build_params(filter_config, target_graph)} :
          /\ filter_config' = st.filter_config
          /\ params' = st.params
    /\ pc' = "called"
    /\ UNCHANGED <<target_graph, prev_params, passvars>>

\* params = build_params(target_graph)                     (app.py)
AppCall ==
    /\ pc = "start"
    /\ IsSidebarConfig(filter_config)
    /\ IsRenderTarget(target_graph)
    /\ \E st \in {app_build_params(filter_config, target_graph)} :
          /\ filter_config' = st.filter_config
          /\ params' = IF st.error = "" THEN st.params ELSE params
          /\ pc' = IF st.error = "" THEN "called" ELSE "raised"
    /\ UNCHANGED <<target_graph, prev_params, passvars>>

\* a call for another chart in between: build_params(filter_config, other)
LibOther(other) ==
    /\ pc = "called"
    /\ other # target_graph
    /\ \E st \in {build_params(filter_config, other)} :
          filter_config' = st.filter_config
    /\ pc' = "interleaved"
    /\ UNCHANGED <<target_graph, params, prev_params, passvars>>

AppOther(other) ==
    /\ pc = "called"
    /\ other # target_graph
    /\ IsSidebarConfig(filter_config)
    /\ IsRenderTarget(target_graph)
    /\ IsRenderTarget(other)
    /\ \E st \in {app_build_params(filter_config, other)} :
          /\ filter_config' = st.filter_config
          /\ pc' = IF st.error = "" THEN "interleaved" ELSE "raised"
    /\ UNCHANGED <<target_graph, params, prev_params, passvars>>

\* the second call with the same configuration object and the same target
LibAgain ==
    /\ pc \in {"called", "interleaved"}
    /\ \E st \in {build_params(filter_config, target_graph)} :
          /\ filter_config' = st.filter_config
          /\ params' = st.params
    /\ prev_params' = <<params>>
    /\ pc' = IF pc = "called" THEN "again" ELSE "again_later"
    /\ UNCHANGED <<target_graph, passvars>>

AppAgain ==
    /\ pc \in {"called", "interleaved"}
    /\ IsSidebarConfig(filter_config)
    /\ IsRenderTarget(target_graph)
    /\ \E st \in {app_build_params(filter_config, target_graph)} :
          /\ filter_config' = st.filter_config
          /\ params' = IF st.error = "" THEN st.params ELSE params
          /\ prev_params' = IF st.error = "" THEN <<params>> ELSE prev_params
          /\ pc' = IF st.error # "" THEN "raised"
                   ELSE IF pc = "called" THEN "again" ELSE "again_later"
    /\ UNCHANGED <<target_graph, passvars>>

Next ==
    \/ LibCall
    \/ AppCall
    \/ \E other \in Targets : LibOther(other)
    \/ \E other \in Targets : AppOther(other)
    \/ LibAgain
    \/ AppAgain

Spec == Init /\ [][Next]_vars

----------------------------------------------------------------------------
(* One run of the script app.py: the loads and the start-up gate, the      *)
(* sidebar, then for each chart build_params, fetch_query and the drawing, *)
(* and the cohort view at the end.                                         *)
(*   step    the position in RenderTargets of the chart being handled      *)
(*   df      the data frame the last fetch_query returned                  *)
(*   shown   what the last step put on the page                            *)
(*   issued  the parameterized queries sent so far, with their parameters  *)
(*   failed  some query of this run raised inside fetch_query              *)

\* the database function each call names, in the order of the calls
func_names ==
    <<"get_kpis", "get_weekday_vs_weekend", "get_monthwise_revenue",
      "get_browser_performance", "get_traffic_type_performance",
      "get_region_performance", "get_os_performance",
      "get_page_type_performance", "get_engagement_metrics_impact",
      "get_special_day_effect">>

\* get_engine(): the engine, or None when the secrets are missing
Engines == {"engine", "None"}

\* how the reads of a load can end
LoadOutcomes == {"ok", "first_read_failed", "later_read_failed"}

\* what the database does with one query: rows, a KPI row that counts no
\* session, no row, or an exception
QueryOutcomes == {"rows", "zero_sessions", "empty", "exception"}

\* load_dims(): [truthy, error]; {} when there is no engine or a read raised
load_dims(engine, outcome) ==
    IF engine = "None" THEN [truthy |-> FALSE, error |-> FALSE]
    ELSE IF outcome = "ok" THEN [truthy |-> TRUE, error |-> FALSE]
    ELSE [truthy |-> FALSE, error |-> TRUE]

\* load_distincts(): [truthy, error]; opts keeps the keys read before the
\* exception, so it is {} only when the first read raised
load_distincts(engine, outcome) ==
    IF engine = "None" THEN [truthy |-> FALSE, error |-> FALSE]
    ELSE IF outcome = "ok" THEN [truthy |-> TRUE, error |-> FALSE]
    ELSE [truthy |-> outcome = "later_read_failed", error |-> TRUE]

\* variant: fetch_query without its try/except
fetch_query_uncaught(outcome) ==
    IF outcome = "exception"
    THEN [df |-> "none", error |-> FALSE, raised |-> TRUE]
    ELSE [df |-> outcome, error |-> FALSE, raised |-> FALSE]

\* fetch_query(query, query_params): the frame read, or on any exception
\* st.error and an empty DataFrame
fetch_query(outcome) ==
    IF outcome = "exception"
    THEN [df |-> "empty", error |-> TRUE, raised |-> FALSE]
    ELSE [df |-> outcome, error |-> FALSE, raised |-> FALSE]

\* execute_query(engine, query, params) of db_utils.py: an empty DataFrame
\* when there is no engine, and on any exception st.error and an empty one
execute_query(engine, outcome) ==
    IF engine = "None" THEN [df |-> "empty", error |-> FALSE, raised |-> FALSE]
    ELSE IF outcome = "exception"
    THEN [df |-> "empty", error |-> TRUE, raised |-> FALSE]
    ELSE [df |-> outcome, error |-> FALSE, raised |-> FALSE]

\* total_sessions of the KPI block
total_sessions_is_zero(d) == d \in {"empty", "zero_sessions"}

\* what the script puts on the page for one target once its frame is there
render(target, d, query_params) ==
    IF target = "kpi"
    THEN {"metrics"} \cup
         (IF /\ total_sessions_is_zero(d)
             /\ \E p \in DOMAIN query_params : Truthy(query_params[p])
          THEN {"warning"} ELSE {})
    ELSE {"subheader"} \cup (IF d # "empty" THEN {"chart"} ELSE {})

\* the choices of the cohort selectbox
CohortViews ==
    {"Monthly New vs. Returning Visitors", "Weekday Conversion by Traffic",
     "Browser vs. OS Conversion Matrix"}

PassInit ==
    /\ filter_config = EmptyDict
    /\ target_graph = NoTarget
    /\ params = EmptyDict
    /\ prev_params = Unset
    /\ pc = "load"
    /\ step = 0
    /\ df = "none"
    /\ shown = {}
    /\ issued = <<>>
    /\ failed = FALSE

\* engine = get_engine(); dims = load_dims(); distincts = load_distincts();
\* if not dims or not distincts: st.sidebar.error(...); st.stop()
Startup ==
    /\ pc = "load"
    /\ \E engine \in Engines, o1 \in LoadOutcomes \ {"later_read_failed"},
          o2 \in LoadOutcomes :
          LET dims      == load_dims(engine, o1)
              distincts == load_distincts(engine, o2)
              stop      == ~dims.truthy \/ ~distincts.truthy
          IN /\ shown' = (IF engine = "None" THEN {"engine_error"} ELSE {})
                          \cup (IF dims.error THEN {"dims_error"} ELSE {})
                          \cup (IF distincts.error THEN {"distincts_error"} ELSE {})
                          \cup (IF stop THEN {"sidebar_error"} ELSE {})
             /\ pc' = IF stop THEN "stopped" ELSE "sidebar"
    /\ UNCHANGED <<filter_config, target_graph, params, prev_params,
                   step, df, issued, failed>>

\* the widgets of the sidebar fill filter_config
Sidebar ==
    /\ pc = "sidebar"
    /\ filter_config' \in render_filters
    /\ pc' = "resolve"
    /\ step' = 1
    /\ shown' = {}
    /\ UNCHANGED <<target_graph, params, prev_params, df, issued, failed>>

\* <x>_params = build_params(target_graph=<the target of this step>)
Resolve ==
    /\ pc = "resolve"
    /\ target_graph' = RenderTargets[step]
    /\ \E st \in {app_build_params(filter_config, RenderTargets[step])} :
          /\ filter_config' = st.filter_config
          /\ params' = IF st.error = "" THEN st.params ELSE params
          /\ pc' = IF st.error = "" THEN "query" ELSE "aborted"
    /\ df' = "none"
    /\ shown' = {}
    /\ UNCHANGED <<prev_params, step, issued, failed>>

\* <x>_df = fetch_query(func_call_str % {'func_name': ...}, <x>_params) and
\* the drawing of the chart (for kpi: the metrics and the warning)
Chart(outcome) ==
    /\ pc = "query"
    /\ outcome = "zero_sessions" => target_graph = "kpi"
    /\ issued' = Append(issued, [func_name |-> func_names[step],
                                 target    |-> target_graph,
                                 params    |-> params])
    /\ \E r \in {fetch_query(outcome)} :
          IF r.raised
          THEN /\ pc' = "aborted"
               /\ UNCHANGED <<step, df, shown, failed>>
          ELSE /\ df' = r.df
               /\ shown' = (IF r.error THEN {"query_error"} ELSE {})
                            \cup render(target_graph, r.df, params)
               /\ failed' = (failed \/ r.error)
               /\ step' = IF step < Len(RenderTargets) THEN step + 1 ELSE step
               /\ pc' = IF step < Len(RenderTargets) THEN "resolve" ELSE "cohort"
    /\ UNCHANGED <<filter_config, target_graph, params, prev_params>>

\* the cohort section: one query without parameters for the chosen view
Cohort(choice, outcome) ==
    /\ pc = "cohort"
    /\ outcome # "zero_sessions"
    /\ \E r \in {fetch_query(outcome)} :
          IF r.raised
          THEN /\ pc' = "aborted"
               /\ UNCHANGED <<df, shown, failed>>
          ELSE /\ df' = r.df
               /\ shown' = (IF r.error THEN {"query_error"} ELSE {})
                            \cup {"subheader"}
                            \cup (IF r.df # "empty" THEN {"chart", "dataframe"} ELSE {})
               /\ failed' = (failed \/ r.error)
               /\ pc' = "done"
    /\ UNCHANGED <<filter_config, target_graph, params, prev_params, step, issued>>

PassNext ==
    \/ Startup
    \/ Sidebar
    \/ Resolve
    \/ \E outcome \in QueryOutcomes : Chart(outcome)
    \/ \E choice \in CohortViews, outcome \in QueryOutcomes : Cohort(choice, outcome)

SpecPass == PassInit /\ [][PassNext]_vars

----------------------------------------------------------------------------
(* Vocabulary of the properties *)

\* the parameter name the contract fixes for each filter name
ParamOf ==
    [month     |-> "p_months",
     visitor   |-> "p_visitor_types",
     weekend   |-> "p_weekend",
     browser   |-> "p_browsers",
     os        |-> "p_os",
     region    |-> "p_regions",
     traffic   |-> "p_traffics",
     page_type |-> "p_page_types"]

\* params holds the mapping build_params returned for target_graph
Called == pc \in {"called", "interleaved", "again", "again_later"}

\* the recognized filters that have a definition in the configuration
Supplied == DOMAIN filter_config \cap DOMAIN ParamOf

ValueOf(name) == filter_config[name].value

\* the scope of the definition; a definition without one has the default
ScopeOf(name) == Get(filter_config[name], "scope", "All")

\* a non-empty selection; for weekend, anything but None
Constrained(name) ==
    IF name = "weekend" THEN ValueOf(name) # None
    ELSE ValueOf(name).kind = "list" /\ ValueOf(name).items # <<>>

\* the filter constrains the query of target_graph: its parameter is not null
ActiveFor(name) ==
    /\ ParamOf[name] \in DOMAIN params
    /\ params[ParamOf[name]] # None

\* the parameter of the filter is present and null
NullFor(name) ==
    /\ ParamOf[name] \in DOMAIN params
    /\ params[ParamOf[name]] = None

\* the scope rule of the contract
InScope(name) ==
    \/ ScopeOf(name) = "All"
    \/ ScopeOf(name) = "KPIs" /\ target_graph = "kpi"
    \/ ScopeOf(name) = "Graph" /\ target_graph = name

----------------------------------------------------------------------------
(* Properties *)

\* C1 (totality): whatever subset of the eight filter definitions is passed,
\* the returned mapping has exactly the eight parameter keys, and a filter
\* without a definition appears as null.
C1_Totality ==
    Called =>
        /\ DOMAIN params = {ParamOf[n] : n \in DOMAIN ParamOf}
        /\ \A n \in DOMAIN ParamOf \ DOMAIN filter_config : params[ParamOf[n]] = None

\* C2: with no filter definitions at all the call succeeds and all eight
\* parameters are present and null, for any target.
C2_NoFiltersAllNull ==
    (Called /\ DOMAIN filter_config = {}) =>
        /\ DOMAIN params = {ParamOf[n] : n \in DOMAIN ParamOf}
        /\ \A p \in DOMAIN params : params[p] = None

\* C3 (ALL-scope universality): a filter with scope All and a non-empty value
\* (weekend: a value other than None) is active for every target: "kpi", its
\* own chart, any other chart, and the absent target.
C3_AllScopeUniversal ==
    Called =>
        \A n \in Supplied :
            (ScopeOf(n) = "All" /\ Constrained(n)) => ActiveFor(n)

C3_Witness ==
    /\ Called
    /\ target_graph = NoTarget
    /\ "browser" \in Supplied
    /\ ScopeOf("browser") = "All"
    /\ Constrained("browser")
    /\ ActiveFor("browser")

\* C4 (GRAPH_ONLY exclusivity): a filter named n with scope Graph and a
\* non-empty value is active for target c exactly when c = n; for "kpi" and
\* for every other chart its parameter is null.
C4_GraphExclusive ==
    Called =>
        \A n \in Supplied :
            (ScopeOf(n) = "Graph" /\ Constrained(n)) =>
                /\ ActiveFor(n) <=> target_graph = n
                /\ target_graph # n => NullFor(n)

C4_Witness ==
    /\ Called
    /\ target_graph = "traffic"
    /\ {"browser", "traffic"} \subseteq Supplied
    /\ ScopeOf("browser") = "Graph" /\ Constrained("browser")
    /\ ScopeOf("traffic") = "Graph" /\ Constrained("traffic")
    /\ NullFor("browser")
    /\ ActiveFor("traffic")

\* C5 (KPI_ONLY exclusivity): a filter with scope KPIs and a non-empty value
\* is active for target "kpi" and for no chart, its own chart included.
C5_KpiExclusive ==
    Called =>
        \A n \in Supplied :
            (ScopeOf(n) = "KPIs" /\ Constrained(n)) =>
                /\ ActiveFor(n) <=> target_graph = "kpi"
                /\ target_graph # "kpi" => NullFor(n)

C5_Witness ==
    /\ Called
    /\ target_graph = "region"
    /\ "region" \in Supplied
    /\ ScopeOf("region") = "KPIs"
    /\ Constrained("region")
    /\ NullFor("region")

\* C6 (empty-value suppression): a filter other than weekend whose value is
\* the empty selection has a null parameter for every target and every scope.
C6_EmptySuppressed ==
    Called =>
        \A n \in Supplied \ {"weekend"} :
            ValueOf(n) = List(<<>>) => NullFor(n)

C6_Witness ==
    /\ Called
    /\ target_graph = "os"
    /\ "os" \in Supplied
    /\ ValueOf("os") = List(<<>>)
    /\ ScopeOf("os") = "Graph"
    /\ NullFor("os")

\* C7 (weekend tri-state): the weekend filter is inactive only for the value
\* None; False is a constrained value like True: with scope All p_weekend
\* equals the value for every target, with scope KPIs or Graph it follows
\* the scope rule.
C7_WeekendTriState ==
    (Called /\ "weekend" \in Supplied) =>
        /\ "p_weekend" \in DOMAIN params
        /\ ValueOf("weekend") = None => params["p_weekend"] = None
        /\ (ValueOf("weekend") = Bool(FALSE) /\ ScopeOf("weekend") = "All")
                => params["p_weekend"] = Bool(FALSE)
        /\ ValueOf("weekend") \in {Bool(FALSE), Bool(TRUE)} =>
                params["p_weekend"] =
                    IF InScope("weekend") THEN ValueOf("weekend") ELSE None

C7_Witness ==
    /\ Called
    /\ target_graph = "kpi"
    /\ DOMAIN filter_config = {"weekend"}
    /\ filter_config["weekend"] = [value |-> Bool(FALSE), scope |-> "All"]
    /\ params["p_weekend"] = Bool(FALSE)

\* C8 (value mapping): each filter of the configuration is reported under its
\* fixed parameter name (no other name is used), and the entry is the
\* filter's value, unchanged, when the filter is active for the target and
\* null otherwise.
C8_ValueMapping ==
    Called =>
        /\ DOMAIN params \subseteq {ParamOf[n] : n \in DOMAIN ParamOf}
        /\ \A n \in Supplied :
              /\ ParamOf[n] \in DOMAIN params
              /\ params[ParamOf[n]] =
                    IF Constrained(n) /\ InScope(n) THEN ValueOf(n) ELSE None

C8_Witness ==
    /\ Called
    /\ target_graph = "region"
    /\ DOMAIN filter_config = {"region"}
    /\ filter_config["region"] = [value |-> List(<<"APAC">>), scope |-> "Graph"]
    /\ params["p_regions"] = List(<<"APAC">>)

\* C9 (idempotence): a second call with the same configuration and the same
\* target returns the mapping the first call returned, also when a call for
\* another target was made in between.
C9_Idempotent ==
    prev_params # Unset => params = prev_params[1]

C9_Witness ==
    /\ pc = "again_later"
    /\ prev_params # Unset
    /\ \E n \in Supplied : ActiveFor(n)
    /\ \E n \in Supplied : Constrained(n) /\ NullFor(n)

\* C10 (no side effects): a call of build_params leaves the configuration as
\* it was: every filter keeps its value and its scope.
C10_NoSideEffects ==
    [][filter_config' = filter_config]_vars

C10_Witness ==
    /\ pc = "interleaved"
    /\ \E n \in Supplied : Constrained(n) /\ ScopeOf(n) = "KPIs" /\ NullFor(n)
    /\ \E n \in Supplied : Constrained(n) /\ ScopeOf(n) = "Graph" /\ ActiveFor(n)

\* C11 (ConfigurationError): a filter definition whose name is not one of the
\* eight recognized names is rejected with an error: once build_params has
\* been called on a configuration that holds such a definition, the call has
\* raised; it has not returned a mapping with the definition left out.
C11_UnrecognizedRejected ==
    (\E name \in DOMAIN filter_config : name \notin DOMAIN ParamOf)
        => pc \in {"start", "raised"}

\* C15 (default scope): the scope of every filter the sidebar defines is one
\* of All, KPIs and Graph, and a definition without a scope behaves as one
\* with scope All: for every target its parameter carries the value when the
\* value is constraining, and None otherwise.
C15_DefaultScope ==
    Called =>
        \A n \in Supplied :
            /\ DOMAIN filter_config = DOMAIN ParamOf
                  => /\ "scope" \in DOMAIN filter_config[n]
                     /\ filter_config[n].scope \in {"All", "KPIs", "Graph"}
            /\ "scope" \notin DOMAIN filter_config[n]
                  => /\ ParamOf[n] \in DOMAIN params
                     /\ params[ParamOf[n]] = IF Constrained(n) THEN ValueOf(n) ELSE None

C15_Witness ==
    /\ Called
    /\ target_graph = "os"
    /\ DOMAIN filter_config = {"region"}
    /\ "scope" \notin DOMAIN filter_config["region"]
    /\ params["p_regions"] = List(<<"APAC">>)

\* C17 (per-filter independence): the entry of a filter's parameter is the
\* entry build_params gives, for the same target, to the configuration that
\* holds this filter's definition alone; the other definitions of the
\* configuration, whatever their values and scopes, do not show in it.
C17_Independent ==
    pc = "called" =>
        \A n \in Supplied :
            LET own == build_params([k \in {n} |-> filter_config[n]], target_graph).params
            IN /\ ParamOf[n] \in DOMAIN params
               /\ ParamOf[n] \in DOMAIN own
               /\ params[ParamOf[n]] = own[ParamOf[n]]

C17_Witness ==
    /\ pc = "called"
    /\ IsSidebarConfig(filter_config)
    /\ \E n, m \in Supplied :
          /\ n # m
          /\ Constrained(n) /\ ActiveFor(n)
          /\ Constrained(m) /\ NullFor(m)

\* C19 (equivalence of the duplicated builders): for a configuration that
\* holds all eight filters, each with a value and a scope among All, KPIs
\* and Graph, and for every target, build_params of app.py raises nothing
\* and returns the mapping build_params of filters.py returns.
C19_BuildersAgree ==
    (/\ pc = "called"
     /\ DOMAIN filter_config = DOMAIN ParamOf
     /\ \A n \in DOMAIN filter_config :
           /\ DOMAIN filter_config[n] = {"value", "scope"}
           /\ filter_config[n].scope \in {"All", "KPIs", "Graph"})
        => LET a == app_build_params(filter_config, target_graph)
               l == build_params(filter_config, target_graph)
           IN /\ a.error = ""
              /\ a.params = l.params
              /\ params = l.params

C19_Witness ==
    /\ pc = "called"
    /\ DOMAIN filter_config = DOMAIN ParamOf
    /\ target_graph = "visitor"
    /\ filter_config["weekend"] = [value |-> Bool(FALSE), scope |-> "All"]
    /\ params["p_weekend"] = Bool(FALSE)
    /\ ActiveFor("visitor")
    /\ NullFor("region") /\ Constrained("region")

\* C20 (contexts that match no filter name): for the targets engagement,
\* special_day and None, the parameters that are not None are exactly those
\* of the filters with scope All and a constraining value; the parameters of
\* KPIs-scoped and Graph-scoped filters are None.
C20_UnmatchedContexts ==
    (Called /\ target_graph \in {"engagement", "special_day", "None"}) =>
        \A n \in Supplied :
            /\ ParamOf[n] \in DOMAIN params
            /\ ActiveFor(n) <=> (Constrained(n) /\ ScopeOf(n) = "All")
            /\ ScopeOf(n) \in {"KPIs", "Graph"} => params[ParamOf[n]] = None

C20_Witness ==
    /\ Called
    /\ target_graph = "None"
    /\ \E n \in Supplied : ScopeOf(n) = "All" /\ ActiveFor(n)
    /\ \E n \in Supplied : Constrained(n) /\ ScopeOf(n) = "KPIs" /\ NullFor(n)

----------------------------------------------------------------------------
(* Vocabulary of the properties of one run of app.py *)

\* the contexts of one pass, in the order the contract fixes
PassOrder ==
    <<"kpi", "weekend", "month", "browser", "traffic", "region", "os",
      "page_type", "engagement", "special_day">>

\* the query of the last target has returned and its drawing is done
Rendered == pc \in {"resolve", "cohort"} /\ issued # <<>>

\* the ten parameterized queries have been issued
AllIssued == pc \in {"cohort", "done"}

\* the script is at a step it can take: it has not been aborted by an
\* exception, and while charts remain the next one is one of the ten
CanGoOn ==
    /\ pc \in {"load", "sidebar", "resolve", "query", "cohort", "done", "stopped"}
    /\ pc \in {"resolve", "query"} => step \in 1..Len(PassOrder)
    /\ pc = "resolve" => Len(issued) = step - 1
    /\ pc = "query" => Len(issued) = step - 1 /\ target_graph = PassOrder[step]

\* the positions of the issued queries in which the filter is active
ActiveIn(name) ==
    {i \in 1..Len(issued) : /\ ParamOf[name] \in DOMAIN issued[i].params
                            /\ issued[i].params[ParamOf[name]] # None}

\* C12 (failure locality): a query that raises gives an empty frame and an
\* error message for its own context and no exception leaves fetch_query, so
\* the script is never aborted; the pass goes on after a failure, a later
\* chart whose query returns rows is drawn, and at the end all ten contexts
\* have been queried. execute_query does the same, also without an engine.
C12_FailureLocal ==
    /\ pc # "aborted"
    /\ \A e \in Engines, o \in QueryOutcomes :
          /\ ~execute_query(e, o).raised
          /\ (e = "None" \/ o = "exception") => execute_query(e, o).df = "empty"
    /\ "query_error" \in shown => df = "empty" /\ "chart" \notin shown
    /\ (Rendered /\ df = "rows" /\ target_graph # "kpi") => "chart" \in shown
    /\ failed => CanGoOn
    /\ AllIssued => {issued[i].target : i \in 1..Len(issued)}
                        = {PassOrder[i] : i \in 1..Len(PassOrder)}

C12_Witness ==
    /\ pc = "cohort"
    /\ failed
    /\ df = "rows"
    /\ "chart" \in shown
    /\ Len(issued) = Len(PassOrder)

\* C13 (empty-result notice): when the query of a chart or of the KPI block
\* succeeds with zero rows, the page shows a "no data" indicator for it in
\* place of the chart.
C13_EmptyResultNotice ==
    (Rendered /\ df = "empty" /\ "query_error" \notin shown)
        => /\ "chart" \notin shown
           /\ shown \cap {"notice", "warning"} # {}

\* C14 (fixed arity): every parameterized query issued in a pass is given an
\* entry, a value or None, for each of the eight bind parameters.
C14_FixedArity ==
    \A i \in 1..Len(issued) :
        DOMAIN issued[i].params = {ParamOf[n] : n \in DOMAIN ParamOf}

C14_Witness ==
    /\ AllIssued
    /\ Len(issued) = Len(PassOrder)
    /\ \E i \in 1..Len(issued) :
          /\ \E p \in DOMAIN issued[i].params : issued[i].params[p] # None
          /\ \E p \in DOMAIN issued[i].params : issued[i].params[p] = None

\* C16 (render-pass ordering): the queries are issued one per context in the
\* order kpi, weekend, month, browser, traffic, region, os, page_type,
\* engagement, special_day; a query is issued only after the parameters have
\* been resolved for its own context, and carries them; whatever the earlier
\* queries returned the pass is never aborted, its next step is the next
\* context, and once past the last chart all ten queries have been issued.
C16_PassOrder ==
    /\ Len(issued) <= Len(PassOrder)
    /\ \A i \in 1..Len(issued) :
          /\ issued[i].target = PassOrder[i]
          /\ \A n \in Supplied :
                /\ ParamOf[n] \in DOMAIN issued[i].params
                /\ issued[i].params[ParamOf[n]] =
                      IF /\ Constrained(n)
                         /\ \/ ScopeOf(n) = "All"
                            \/ ScopeOf(n) = "KPIs" /\ PassOrder[i] = "kpi"
                            \/ ScopeOf(n) = "Graph" /\ PassOrder[i] = n
                      THEN ValueOf(n) ELSE None
    /\ CanGoOn
    /\ AllIssued => Len(issued) = Len(PassOrder)

C16_Witness ==
    /\ pc = "done"
    /\ failed
    /\ Len(issued) = Len(PassOrder)
    /\ issued[1].params # issued[Len(issued)].params

\* C18 (Graph scope over the rendered contexts): once the ten queries are
\* issued, a filter with scope Graph and a non-empty value was active in
\* exactly one of them, the query of the context that bears its name; the
\* visitor filter, whose name is the id of no rendered context, was active
\* in none.
C18_GraphScopeInPass ==
    AllIssued =>
        \A n \in Supplied :
            (Constrained(n) /\ ScopeOf(n) = "Graph") =>
                /\ ActiveIn(n) = {i \in 1..Len(issued) : PassOrder[i] = n}
                /\ Cardinality(ActiveIn(n)) = IF n = "visitor" THEN 0 ELSE 1

C18_Witness ==
    /\ pc = "done"
    /\ \A n \in DOMAIN ParamOf : n \in Supplied /\ Constrained(n) /\ ScopeOf(n) = "Graph"
    /\ ActiveIn("visitor") = {}
    /\ ActiveIn("region") = {6}

\* C21 (KPI empty-result warning): once the KPI block is drawn, the "No data
\* for the current KPI filters" warning is on the page exactly when the KPI
\* query counted no session (or returned no row) and some parameter of the
\* kpi query is not None, weekend = False included; the pass is not aborted
\* by it and still issues its ten queries.
C21_KpiWarning ==
    /\ (Rendered /\ target_graph = "kpi") =>
          ("warning" \in shown <=>
              /\ df \in {"empty", "zero_sessions"}
              /\ \E p \in DOMAIN params : params[p] # None)
    /\ pc # "aborted"
    /\ AllIssued => Len(issued) = Len(PassOrder)

\* C22 (scope values outside the enum): a filter with a constraining value
\* whose scope is none of All, KPIs and Graph is inactive for every target:
\* the call raises nothing and its parameter is None, with build_params of
\* filters.py and with the loop of app.py run on the same definitions.
C22_OffEnumInactive ==
    /\ (\E n \in Supplied : ScopeOf(n) \notin {"All", "KPIs", "Graph"}) => pc # "raised"
    /\ Called =>
          \A n \in Supplied :
              (Constrained(n) /\ ScopeOf(n) \notin {"All", "KPIs", "Graph"}) =>
                  /\ ParamOf[n] \in DOMAIN params
                  /\ params[ParamOf[n]] = None
                  /\ LET a == app_build_params(filter_config, target_graph)
                     IN /\ a.error = ""
                        /\ ParamOf[n] \in DOMAIN a.params
                        /\ a.params[ParamOf[n]] = None

C22_Witness ==
    /\ Called
    /\ target_graph = "kpi"
    /\ DOMAIN filter_config = {"weekend"}
    /\ filter_config["weekend"] = [value |-> Bool(FALSE), scope |-> "kpis"]
    /\ params["p_weekend"] = None

\* C23 (start-up gate): when get_engine, load_dims or load_distincts has
\* reported an error, the script is stopped at the gate: it does not go on to
\* build the sidebar widgets; a stopped script has built no filter and
\* issued no query.
C23_StartupGate ==
    /\ shown \cap {"engine_error", "dims_error", "distincts_error"} # {}
          => pc = "stopped"
    /\ pc = "stopped" => filter_config = EmptyDict /\ issued = <<>>

====
